---- MODULE Spec2Model ----
(***************************************************************************)
(* Model of src/main.py: the /generate-pptx handler of the network diagram *)
(* service.  A request carries a list of circuit records; the handler      *)
(* folds them into a graph G and an edge-label map edges_info, lays the    *)
(* nodes out in three columns (apply_l2r_topology_layout) and draws them.  *)
(*                                                                         *)
(* Python strings are modelled as sequences of Unicode code points, so     *)
(* that upper(), substring tests, string comparison (sorted) and f-string  *)
(* concatenation are computed the way Python computes them.  Coordinates   *)
(* are in hundredths of an inch (2.0 -> 200, 6.66 -> 666, 1.5 -> 150).     *)
(***************************************************************************)
EXTENDS Integers, Sequences, FiniteSets, TLC

VARIABLES
    pc,          \* where the request is: "request", "rejected", "loop", "draw", "done"
    data,        \* the request body: the List[CircuitData] as received (line 56)
    df,          \* the DataFrame of line 59, one row per item
    i,           \* the number of rows the loop of line 72 has processed
    G,           \* the nx.Graph of line 68: nodes in insertion order, attributes
    edges_info,  \* the defaultdict(list) of line 69: edge key -> circuit labels
    layout_pos,  \* the position map of line 94: node -> <<x, y>>
    connectors,  \* the connectors and label boxes drawn by lines 97-122
    node_shapes  \* the node shapes drawn by lines 125-154

vars == <<pc, data, df, i, G, edges_info, layout_pos, connectors, node_shapes>>

-----------------------------------------------------------------------------
(* Bound of the model: the longest request batch explored.                 *)
MaxRows == 2

-----------------------------------------------------------------------------
(* String literals of the source, as code-point sequences.                 *)

\* ""
EmptyStr == <<>>
\* a JSON null / absent field (Python None); -1 is no code point
NoneVal == <<-1>>

\* "HQ", "DC", U+7E3D U+90E8 (zh "headquarters"), U+6A5F U+623F (zh "machine room")
DatacenterKeywords == { <<72, 81>>, <<68, 67>>, <<32317, 37096>>, <<27231, 25151>> }
\* "MPLS", "VPN", "ADSL"
CloudProductKeywords == { <<77, 80, 76, 83>>, <<86, 80, 78>>, <<65, 68, 83, 76>> }
\* "Cloud_Network"
cloud_id == <<67, 108, 111, 117, 100, 95, 78, 101, 116, 119, 111, 114, 107>>
\* "MPLS / VPN / Internet"
cloud_label == <<77, 80, 76, 83, 32, 47, 32, 86, 80, 78, 32, 47, 32,
                 73, 110, 116, 101, 114, 110, 101, 116>>

\* layout constants, in hundredths of an inch
X_LEFT == 200
X_CENTER == 666
X_RIGHT == 1133
Y_MID == 375
y_spacing == 150

-----------------------------------------------------------------------------
(* Python string primitives.                                               *)

\* k in s  (substring test)
Contains(s, k) ==
    \E j \in 0..(Len(s) - Len(k)) : SubSeq(s, j + 1, j + Len(k)) = k

\* str.upper() on the characters of the model's alphabet: a-z -> A-Z
UpperChar(c) == IF c >= 97 /\ c <= 122 THEN c - 32 ELSE c
Upper(s) == [j \in 1..Len(s) |-> UpperChar(s[j])]

\* a < b for Python str: lexicographic by code point, a proper prefix first
RECURSIVE StrLess(_, _)
StrLess(a, b) ==
    IF b = <<>> THEN FALSE
    ELSE IF a = <<>> THEN TRUE
    ELSE IF a[1] # b[1] THEN a[1] < b[1]
    ELSE StrLess(Tail(a), Tail(b))

\* bool(s) for a str
Truthy(s) == s # <<>>

-----------------------------------------------------------------------------
(* Helpers on functions used as Python dicts.                              *)

EmptyMap == << >>

Range(s) == { s[j] : j \in DOMAIN s }

\* d1 updated by d2 (dict.update)
Update(d1, d2) ==
    [k \in (DOMAIN d1) \cup (DOMAIN d2) |-> IF k \in DOMAIN d2 THEN d2[k] ELSE d1[k]]

-----------------------------------------------------------------------------
(* The request: a list of CircuitData items.                               *)

Fields == {"PRODUCT_TYPE", "CIRCUIT_ID", "SITE_ID_A", "BUILDING_A",
           "SITE_ID_B", "BUILDING_B", "ROUTER_NAME"}
RequiredFields == {"PRODUCT_TYPE", "CIRCUIT_ID", "SITE_ID_A", "BUILDING_A"}

\* "mpls" (lower case, a shared-network product once uppercased), "LL"
Products == { <<109, 112, 108, 115>>, <<76, 76>> }
\* "1"
CircuitIds == { <<49>> }
\* "A" < "Cloud_Network" < "S" in Python's string order
SiteA == <<65>>
SiteS == <<83>>
\* building names: "HQ" (a datacenter keyword) and "B"
BuildingHQ == <<72, 81>>
BuildingB == <<66>>

\* (site id, building) pairs a record may carry as endpoint A / endpoint B.
\* Site "A" is named with both buildings as endpoint A and site "S" with both
\* as endpoint B; each also appears on the other side, so one site can be
\* classified from either column.  "Cloud_Network" and "" are str values the
\* request schema accepts as site ids.
EndpointsA == { <<SiteA, BuildingHQ>>, <<SiteA, BuildingB>>,
                <<SiteS, BuildingB>>,
                <<cloud_id, BuildingB>>, <<EmptyStr, BuildingB>> }
EndpointsB == { <<EmptyStr, EmptyStr>>,
                <<SiteS, BuildingHQ>>, <<SiteS, BuildingB>>,
                <<SiteA, BuildingB>>,
                <<cloud_id, BuildingB>> }

Item(p, c, a, b) ==
    [PRODUCT_TYPE |-> p, CIRCUIT_ID |-> c,
     SITE_ID_A |-> a[1], BUILDING_A |-> a[2],
     SITE_ID_B |-> b[1], BUILDING_B |-> b[2],
     ROUTER_NAME |-> EmptyStr]

\* items with every required field given
FullItems ==
    { Item(p, c, a, b) : p \in Products, c \in CircuitIds,
                         a \in EndpointsA, b \in EndpointsB }

\* items with one field absent (None)
BaseItem == Item(<<76, 76>>, <<49>>, <<SiteA, BuildingB>>, <<SiteS, BuildingB>>)
NullItems ==
    { [BaseItem EXCEPT ![f] = NoneVal] :
        f \in {"CIRCUIT_ID", "SITE_ID_A", "SITE_ID_B"} }

RawItems == FullItems \cup NullItems

Batches == UNION { [1..n -> RawItems] : n \in 0..MaxRows }

-----------------------------------------------------------------------------
(* class CircuitData(BaseModel): the four str fields are required; the     *)
(* Optional[str] fields may be absent or null.  The empty string is a str. *)
CircuitData(item) == \A f \in RequiredFields : item[f] # NoneVal

\* DataFrame(...).fillna(''): a None cell becomes ''
fillna(item) == [f \in Fields |-> IF item[f] = NoneVal THEN EmptyStr ELSE item[f]]

-----------------------------------------------------------------------------
(* The builder loop of generate_pptx.                                      *)

\* nx.Graph(): nodes in insertion order, and each node's attribute dict
EmptyGraph == [nodes |-> <<>>, attr |-> EmptyMap]

\* G.add_node(n, label=..., role=...): a new node is appended; a node already
\* present keeps its place and has its attributes overwritten
add_node(g, n, label, role) ==
    [nodes |-> IF n \in DOMAIN g.attr THEN g.nodes ELSE Append(g.nodes, n),
     attr  |-> Update(g.attr, [m \in {n} |-> [label |-> label, role |-> role]])]

\* faulty variant: the pair is used as given, without sorting
EdgeKey_unsorted(u, v) == <<u, v>>

\* tuple(sorted((u, v)))
EdgeKey(u, v) == IF StrLess(v, u) THEN <<v, u>> ELSE <<u, v>>

\* edges_info[key].append(label) on a defaultdict(list)
append_label(E, key, label) ==
    Update(E, [k \in {key} |->
                 Append(IF key \in DOMAIN E THEN E[key] ELSE <<>>, label)])

\* 'datacenter' if any(k in building for k in [...]) else 'customer'
ClassifyRole(building) ==
    IF \E k \in DatacenterKeywords : Contains(building, k)
    THEN "datacenter" ELSE "customer"

\* any(x in p_type for x in ['MPLS', 'VPN', 'ADSL'])
is_cloud_product(p_type) == \E x \in CloudProductKeywords : Contains(p_type, x)

\* f"{p_type} [{c_id}]"
circuit_label(p_type, c_id) == p_type \o <<32, 91>> \o c_id \o <<93>>

\* faulty variant: the shared-network branch also links A and B directly
CloudBranch_direct(g, E, site_a, site_b, building_b, label) ==
    LET g1 == add_node(g, cloud_id, cloud_label, "cloud")
        E1 == append_label(E, EdgeKey(site_a, cloud_id), label)
    IN  IF Truthy(site_b)
        THEN [G |-> add_node(g1, site_b, building_b, ClassifyRole(building_b)),
              E |-> append_label(
                      append_label(E1, EdgeKey(site_b, cloud_id), label),
                      EdgeKey(site_a, site_b), label)]
        ELSE [G |-> g1, E |-> E1]

\* faulty variant: the shared-network branch never registers the cloud node
CloudBranch_noHub(g, E, site_a, site_b, building_b, label) ==
    LET E1 == append_label(E, EdgeKey(site_a, cloud_id), label)
    IN  IF Truthy(site_b)
        THEN [G |-> add_node(g, site_b, building_b, ClassifyRole(building_b)),
              E |-> append_label(E1, EdgeKey(site_b, cloud_id), label)]
        ELSE [G |-> g, E |-> E1]

\* lines 81-87: the shared-network branch
CloudBranch(g, E, site_a, site_b, building_b, label) ==
    LET g1 == add_node(g, cloud_id, cloud_label, "cloud")
        E1 == append_label(E, EdgeKey(site_a, cloud_id), label)
    IN  IF Truthy(site_b)
        THEN [G |-> add_node(g1, site_b, building_b, ClassifyRole(building_b)),
              E |-> append_label(E1, EdgeKey(site_b, cloud_id), label)]
        ELSE [G |-> g1, E |-> E1]

\* faulty variant: the point-to-point branch registers the cloud node too
DirectBranch_viaCloud(g, E, site_a, site_b, building_b, label) ==
    [G |-> add_node(add_node(g, cloud_id, cloud_label, "cloud"),
                    site_b, building_b, ClassifyRole(building_b)),
     E |-> append_label(E, EdgeKey(site_a, site_b), label)]

\* lines 88-91: the point-to-point branch (site_b is truthy)
DirectBranch(g, E, site_a, site_b, building_b, label) ==
    [G |-> add_node(g, site_b, building_b, ClassifyRole(building_b)),
     E |-> append_label(E, EdgeKey(site_a, site_b), label)]

\* lines 73-91: the body of the loop for one row
process_row(g, E, row) ==
    LET site_a == row.SITE_ID_A
        site_b == row.SITE_ID_B
        p_type == Upper(row.PRODUCT_TYPE)
        c_id   == row.CIRCUIT_ID
        role_a == ClassifyRole(row.BUILDING_A)
        g0     == add_node(g, site_a, row.BUILDING_A, role_a)
        label  == circuit_label(p_type, c_id)
    IN  IF is_cloud_product(p_type)
        THEN CloudBranch(g0, E, site_a, site_b, row.BUILDING_B, label)
        ELSE IF Truthy(site_b)
        THEN DirectBranch(g0, E, site_a, site_b, row.BUILDING_B, label)
        ELSE [G |-> g0, E |-> E]

-----------------------------------------------------------------------------
(* apply_l2r_topology_layout                                               *)

RoleOf(g, n) == g.attr[n].role

left_nodes(g) ==
    LET Test(n) == RoleOf(g, n) # "cloud" /\ RoleOf(g, n) # "datacenter"
    IN  SelectSeq(g.nodes, Test)
center_nodes(g) ==
    LET Test(n) == RoleOf(g, n) = "cloud" IN SelectSeq(g.nodes, Test)
right_nodes(g) ==
    LET Test(n) == RoleOf(g, n) = "datacenter" IN SelectSeq(g.nodes, Test)

\* faulty variant: centred on total_nodes instead of total_nodes - 1
start_y_uncentred(total_nodes) == Y_MID - ((total_nodes * y_spacing) \div 2)

\* start_y = 3.75 - ((total_nodes - 1) * y_spacing / 2)
start_y(total_nodes) == Y_MID - (((total_nodes - 1) * y_spacing) \div 2)

\* faulty variant: the last node of the group is left without a position
assign_y_positions_dropLast(pos, nodes, x_pos) ==
    IF nodes = <<>> THEN pos
    ELSE Update(pos,
                [n \in { nodes[j] : j \in 1..(Len(nodes) - 1) } |->
                   LET j == CHOOSE j \in 1..Len(nodes) : nodes[j] = n
                   IN  <<x_pos, start_y(Len(nodes)) + ((j - 1) * y_spacing)>>])

\* assign_y_positions(nodes, x_pos): pos[node] = [x_pos, start_y + i*y_spacing]
assign_y_positions(pos, nodes, x_pos) ==
    IF nodes = <<>> THEN pos
    ELSE Update(pos,
                [n \in Range(nodes) |->
                   LET j == CHOOSE j \in 1..Len(nodes) : nodes[j] = n
                   IN  <<x_pos, start_y(Len(nodes)) + ((j - 1) * y_spacing)>>])

\* faulty variant: the cloud group is placed in the right column
apply_l2r_topology_layout_twoColumns(g) ==
    LET p1 == assign_y_positions(EmptyMap, left_nodes(g), X_LEFT)
        p2 == assign_y_positions(p1, center_nodes(g), X_RIGHT)
    IN  assign_y_positions(p2, right_nodes(g), X_RIGHT)

\* lines 27-52
apply_l2r_topology_layout(g) ==
    LET p1 == assign_y_positions(EmptyMap, left_nodes(g), X_LEFT)
        p2 == assign_y_positions(p1, center_nodes(g), X_CENTER)
    IN  assign_y_positions(p2, right_nodes(g), X_RIGHT)

-----------------------------------------------------------------------------
(* Drawing (steps 5 and 6 of generate_pptx), kept to what is drawn where.  *)

\* "\n".join(circuits)
RECURSIVE Join(_)
Join(circuits) ==
    IF Len(circuits) = 0 THEN <<>>
    ELSE IF Len(circuits) = 1 THEN circuits[1]
    ELSE circuits[1] \o <<10>> \o Join(Tail(circuits))

\* lines 97-122: one straight connector and one label box per edge key whose
\* two ends have a position
draw_connectors(E, pos) ==
    [k \in { e \in DOMAIN E : e[1] \in DOMAIN pos /\ e[2] \in DOMAIN pos } |->
        [from |-> pos[k[1]], to |-> pos[k[2]], text |-> Join(E[k])]]

\* lines 125-147: one shape per positioned node
draw_nodes(g, pos) ==
    [n \in DOMAIN pos |->
        [shape |-> IF RoleOf(g, n) = "cloud" THEN "CLOUD" ELSE "ROUNDED_RECTANGLE",
         at    |-> pos[n]]]

-----------------------------------------------------------------------------
(* The state machine.                                                      *)

Init ==
    /\ pc = "request"
    /\ data \in Batches
    /\ df = <<>>
    /\ i = 0
    /\ G = EmptyGraph
    /\ edges_info = EmptyMap
    /\ layout_pos = EmptyMap
    /\ connectors = EmptyMap
    /\ node_shapes = EmptyMap

\* FastAPI validates the body against List[CircuitData]; an invalid item is
\* answered 422 and generate_pptx is never called
Reject ==
    /\ pc = "request"
    /\ \E k \in 1..Len(data) : ~CircuitData(data[k])
    /\ pc' = "rejected"
    /\ UNCHANGED <<data, df, i, G, edges_info, layout_pos, connectors, node_shapes>>

\* lines 59-69: the DataFrame, the empty graph and the empty edge map
Enter ==
    /\ pc = "request"
    /\ \A k \in 1..Len(data) : CircuitData(data[k])
    /\ df' = [k \in 1..Len(data) |-> fillna(data[k])]
    /\ i' = 0
    /\ G' = EmptyGraph
    /\ edges_info' = EmptyMap
    /\ pc' = "loop"
    /\ UNCHANGED <<data, layout_pos, connectors, node_shapes>>

\* lines 72-91: one iteration of `for _, row in df.iterrows()`
ProcessRow ==
    /\ pc = "loop"
    /\ i < Len(df)
    /\ LET r == process_row(G, edges_info, df[i + 1])
       IN  /\ G' = r.G
           /\ edges_info' = r.E
    /\ i' = i + 1
    /\ UNCHANGED <<pc, data, df, layout_pos, connectors, node_shapes>>

\* line 94
Layout ==
    /\ pc = "loop"
    /\ i = Len(df)
    /\ layout_pos' = apply_l2r_topology_layout(G)
    /\ pc' = "draw"
    /\ UNCHANGED <<data, df, i, G, edges_info, connectors, node_shapes>>

\* lines 97-166
Draw ==
    /\ pc = "draw"
    /\ connectors' = draw_connectors(edges_info, layout_pos)
    /\ node_shapes' = draw_nodes(G, layout_pos)
    /\ pc' = "done"
    /\ UNCHANGED <<data, df, i, G, edges_info, layout_pos>>

Next == Reject \/ Enter \/ ProcessRow \/ Layout \/ Draw

Spec == Init /\ [][Next]_vars

-----------------------------------------------------------------------------
(* Vocabulary of the properties.                                           *)

\* the handler has been entered (the request passed validation)
Built == pc \in {"loop", "draw", "done"}
\* the whole batch has been folded by the builder loop
Folded == Built /\ i = Len(df)
\* the layout has been computed
LaidOut == pc \in {"draw", "done"}

Nodes == DOMAIN G.attr

\* no required field of the batch is the empty string
NoEmptyRequired ==
    \A r \in 1..Len(df) : \A f \in RequiredFields : df[r][f] # EmptyStr
CloudRoleNodes == { n \in Nodes : RoleOf(G, n) = "cloud" }

\* the row classes of the three-way branch
SharedRow(row) == is_cloud_product(Upper(row.PRODUCT_TYPE))
LabelOf(row) == Upper(row.PRODUCT_TYPE) \o <<32, 91>> \o row.CIRCUIT_ID \o <<93>>

\* a step of the builder loop, and the row it processes
RowStep == pc = "loop" /\ i' = i + 1
OldLabels(k) == IF k \in DOMAIN edges_info THEN edges_info[k] ELSE <<>>
ChangedKeys == { k \in DOMAIN edges_info' : edges_info'[k] # OldLabels(k) }

Rep(label, n) == [j \in 1..n |-> label]
Count(b) == IF b THEN 1 ELSE 0

-----------------------------------------------------------------------------
\* C1: Role no-downgrade.  Once the whole batch is folded, every site that
\* some record mentions (as endpoint A, or as a registered endpoint B) with a
\* building name classified datacenter has role datacenter in the graph.
\* Stated for batches in which no required field is empty.
C1_RoleNoDowngrade ==
    (Folded /\ NoEmptyRequired) =>
      \A r \in 1..Len(df) :
        /\ ClassifyRole(df[r].BUILDING_A) = "datacenter"
             => RoleOf(G, df[r].SITE_ID_A) = "datacenter"
        /\ (Truthy(df[r].SITE_ID_B) /\ ClassifyRole(df[r].BUILDING_B) = "datacenter")
             => RoleOf(G, df[r].SITE_ID_B) = "datacenter"

-----------------------------------------------------------------------------
\* C2 (as stated): processing a shared-network record with both endpoints
\* present appends its label to exactly two edge keys, (A, Cloud_Network) and
\* (B, Cloud_Network), once each, and nothing to the direct key (A, B), also
\* when A and B are the same site.  Stated for records whose two endpoints
\* are sites other than the string "Cloud_Network".
C2_ExactlyTwoEdgeKeys ==
    [][ (RowStep /\ SharedRow(df[i + 1])
           /\ Truthy(df[i + 1].SITE_ID_A) /\ Truthy(df[i + 1].SITE_ID_B)
           /\ df[i + 1].SITE_ID_A # cloud_id /\ df[i + 1].SITE_ID_B # cloud_id)
        => LET a  == df[i + 1].SITE_ID_A
               b  == df[i + 1].SITE_ID_B
               ka == EdgeKey(a, cloud_id)
               kb == EdgeKey(b, cloud_id)
           IN  /\ ChangedKeys = {ka, kb}
               /\ Cardinality(ChangedKeys) = 2
               /\ \A k \in ChangedKeys :
                    edges_info'[k] = Append(OldLabels(k), LabelOf(df[i + 1]))
               /\ EdgeKey(a, b) \notin ChangedKeys ]_vars

\* C2 (amended): such a record appends its label once to key (A, Cloud_Network)
\* and once to key (B, Cloud_Network) and touches no other key; the two keys
\* are one key, which gains two copies, when A = B; the direct key (A, B)
\* gains nothing unless A or B is itself the string "Cloud_Network".
C2_SharedRouting ==
    [][ (RowStep /\ SharedRow(df[i + 1])
           /\ Truthy(df[i + 1].SITE_ID_A) /\ Truthy(df[i + 1].SITE_ID_B))
        => LET a  == df[i + 1].SITE_ID_A
               b  == df[i + 1].SITE_ID_B
               ka == EdgeKey(a, cloud_id)
               kb == EdgeKey(b, cloud_id)
           IN  /\ DOMAIN edges_info' = (DOMAIN edges_info) \cup {ka, kb}
               /\ \A k \in DOMAIN edges_info' :
                    edges_info'[k] =
                      OldLabels(k) \o Rep(LabelOf(df[i + 1]),
                                          Count(k = ka) + Count(k = kb))
               /\ (a # b) => (ka # kb)
               /\ (a # cloud_id /\ b # cloud_id)
                    => EdgeKey(a, b) \notin ChangedKeys ]_vars

\* a shared-network record with A = B has just been processed
C2_Witness ==
    /\ pc = "loop" /\ i >= 1
    /\ SharedRow(df[i])
    /\ Truthy(df[i].SITE_ID_A)
    /\ df[i].SITE_ID_A = df[i].SITE_ID_B
    /\ Len(edges_info[EdgeKey(df[i].SITE_ID_A, cloud_id)]) >= 2

-----------------------------------------------------------------------------
\* C3: Point-to-point routing.  Processing a record with no shared-network
\* marker and both endpoints present appends the label to exactly one edge
\* key, the canonical pair (A, B); it registers no node besides A and B and
\* gives no node the cloud role; and a batch made only of such records
\* yields a graph with no cloud-role node.
DirectRow(row) ==
    ~SharedRow(row) /\ Truthy(row.SITE_ID_A) /\ Truthy(row.SITE_ID_B)

C3_PointToPoint ==
    /\ [][ (RowStep /\ DirectRow(df[i + 1]))
           => LET a   == df[i + 1].SITE_ID_A
                  b   == df[i + 1].SITE_ID_B
                  key == EdgeKey(a, b)
              IN  /\ ChangedKeys = {key}
                  /\ DOMAIN edges_info' = (DOMAIN edges_info) \cup {key}
                  /\ edges_info'[key] = Append(OldLabels(key), LabelOf(df[i + 1]))
                  /\ DOMAIN G'.attr = Nodes \cup {a, b}
                  /\ \A n \in DOMAIN G'.attr :
                       RoleOf(G', n) = "cloud" => n \in CloudRoleNodes ]_vars
    /\ []( (Built /\ \A r \in 1..i : DirectRow(df[r])) => CloudRoleNodes = {} )

\* a batch of two point-to-point records has been folded into a graph
C3_Witness ==
    /\ Folded /\ Len(df) = 2
    /\ \A r \in 1..2 : DirectRow(df[r])
    /\ df[1].SITE_ID_A # df[1].SITE_ID_B
    /\ Len(edges_info[EdgeKey(df[1].SITE_ID_A, df[1].SITE_ID_B)]) >= 1
    /\ cloud_id \notin Nodes

-----------------------------------------------------------------------------
\* C4: Edge aggregation.  Every key of the edge-label map is a sorted pair,
\* maps to a non-empty list, and that list holds the labels
\* "{PRODUCT_TYPE uppercased} [{CIRCUIT_ID}]" of exactly the records that
\* contributed to that unordered pair, in input order, duplicates kept.

\* the unordered pairs one record contributes its label to, in order
PairsOf(row) ==
    IF SharedRow(row)
    THEN <<{row.SITE_ID_A, cloud_id}>>
           \o (IF Truthy(row.SITE_ID_B) THEN <<{row.SITE_ID_B, cloud_id}>> ELSE <<>>)
    ELSE IF Truthy(row.SITE_ID_B) THEN <<{row.SITE_ID_A, row.SITE_ID_B}>>
    ELSE <<>>

\* pair -> labels, with one more label for the pair
Credit(M, pair, label) ==
    Update(M, [q \in {pair} |->
                 Append(IF pair \in DOMAIN M THEN M[pair] ELSE <<>>, label)])

\* the labels each unordered pair has been given by the first n rows
RECURSIVE Contributions(_)
Contributions(n) ==
    IF n = 0 THEN EmptyMap
    ELSE LET prev  == Contributions(n - 1)
             pairs == PairsOf(df[n])
             label == LabelOf(df[n])
         IN  IF Len(pairs) = 0 THEN prev
             ELSE IF Len(pairs) = 1 THEN Credit(prev, pairs[1], label)
             ELSE Credit(Credit(prev, pairs[1], label), pairs[2], label)

C4_EdgeAggregation ==
    Built =>
      LET expected == Contributions(i)
      IN  /\ \A k \in DOMAIN edges_info :
               /\ ~StrLess(k[2], k[1])
               /\ edges_info[k] # <<>>
               /\ {k[1], k[2]} \in DOMAIN expected
               /\ edges_info[k] = expected[{k[1], k[2]}]
          /\ \A pair \in DOMAIN expected :
               \E k \in DOMAIN edges_info : {k[1], k[2]} = pair

\* two records naming the same two sites in opposite order share one key
C4_Witness ==
    /\ Folded /\ Len(df) = 2
    /\ ~SharedRow(df[1]) /\ ~SharedRow(df[2])
    /\ Truthy(df[1].SITE_ID_A) /\ Truthy(df[1].SITE_ID_B)
    /\ df[1].SITE_ID_A # df[1].SITE_ID_B
    /\ df[2].SITE_ID_A = df[1].SITE_ID_B
    /\ df[2].SITE_ID_B = df[1].SITE_ID_A
    /\ Len(edges_info[EdgeKey(df[1].SITE_ID_A, df[1].SITE_ID_B)]) = 2
    /\ Cardinality(DOMAIN edges_info) = 1

-----------------------------------------------------------------------------
\* C5: Layout totality.  The position map returned by
\* apply_l2r_topology_layout has exactly the graph's nodes as keys, one
\* (x, y) pair each; the empty graph gives the empty map; and a graph with no
\* cloud-role node has no position at the centre x-coordinate.
C5_LayoutTotality ==
    LaidOut =>
      /\ DOMAIN layout_pos = Range(G.nodes)
      /\ DOMAIN layout_pos = Nodes
      /\ \A n \in DOMAIN layout_pos :
           /\ DOMAIN layout_pos[n] = 1..2
           /\ layout_pos[n][1] \in Int /\ layout_pos[n][2] \in Int
      /\ (G.nodes = <<>>) => (layout_pos = EmptyMap)
      /\ (CloudRoleNodes = {})
           => \A n \in DOMAIN layout_pos : layout_pos[n][1] # X_CENTER

\* a graph of at least three nodes, none of them cloud, has been laid out
C5_Witness ==
    /\ LaidOut
    /\ Len(G.nodes) >= 3
    /\ CloudRoleNodes = {}
    /\ Cardinality(DOMAIN layout_pos) >= 3

-----------------------------------------------------------------------------
\* C6: Column separation.  Every customer node is at the left x-coordinate,
\* every cloud node at the centre one, every datacenter node at the right
\* one; the three are pairwise distinct, so two nodes share an x-coordinate
\* exactly when they share a role, whatever the edges are.
ColumnOf(role) ==
    IF role = "cloud" THEN X_CENTER
    ELSE IF role = "datacenter" THEN X_RIGHT
    ELSE X_LEFT

C6_ColumnSeparation ==
    /\ X_LEFT # X_CENTER /\ X_CENTER # X_RIGHT /\ X_LEFT # X_RIGHT
    /\ LaidOut =>
         /\ \A n \in Nodes : layout_pos[n][1] = ColumnOf(RoleOf(G, n))
         /\ \A n, m \in Nodes :
              (layout_pos[n][1] = layout_pos[m][1]) <=> (RoleOf(G, n) = RoleOf(G, m))

\* all three columns are occupied
C6_Witness ==
    /\ LaidOut
    /\ \E n, m, c \in Nodes :
         /\ RoleOf(G, n) = "customer"
         /\ RoleOf(G, m) = "datacenter"
         /\ RoleOf(G, c) = "cloud"

-----------------------------------------------------------------------------
\* C7: Validation.  A batch holding a record in which a required field is
\* missing or is the empty string is rejected: nothing is built from it, and
\* no node whose identity is the empty string ever appears in the graph.
C7_EmptyOrMissingRejected ==
    /\ (\E k \in 1..Len(data) : \E f \in RequiredFields :
          data[k][f] \in {NoneVal, EmptyStr})
         => /\ pc \in {"request", "rejected"}
            /\ G = EmptyGraph
            /\ edges_info = EmptyMap
    /\ EmptyStr \notin Nodes

-----------------------------------------------------------------------------
\* C8: Vertical placement.  In its role group of size count, the node at
\* index idx (0-based, in graph insertion order) has
\* y = midline - (count - 1) * spacing / 2 + idx * spacing, with midline 3.75
\* and spacing 1.5; the group's y-values rise by the spacing, are symmetric
\* about the midline, and no two nodes share an (x, y).

\* the nodes inserted before position j that have the role of the j-th node
EarlierInGroup(j) ==
    { q \in 1..(j - 1) : RoleOf(G, G.nodes[q]) = RoleOf(G, G.nodes[j]) }
GroupOf(j) ==
    { q \in 1..Len(G.nodes) : RoleOf(G, G.nodes[q]) = RoleOf(G, G.nodes[j]) }

C8_VerticalPlacement ==
    LaidOut =>
      /\ \A j \in 1..Len(G.nodes) :
           LET count == Cardinality(GroupOf(j))
               idx   == Cardinality(EarlierInGroup(j))
           IN  /\ 2 * layout_pos[G.nodes[j]][2]
                    = (2 * 375) - ((count - 1) * 150) + (2 * idx * 150)
               \* the mirror index of the group has the mirrored y
               /\ \E q \in GroupOf(j) :
                    layout_pos[G.nodes[q]][2] + layout_pos[G.nodes[j]][2] = 2 * 375
               \* the next node of the group is one spacing below
               /\ \A q \in GroupOf(j) :
                    (Cardinality(EarlierInGroup(q)) = idx + 1)
                      => layout_pos[G.nodes[q]][2] = layout_pos[G.nodes[j]][2] + 150
      /\ \A n, m \in Nodes : (n # m) => (layout_pos[n] # layout_pos[m])

\* the node inserted first got its final role from a later record and heads
\* a group of two in its final column
C8_Witness ==
    /\ LaidOut /\ Len(df) = 2 /\ Len(G.nodes) >= 2
    /\ G.nodes[1] = df[1].SITE_ID_A
    /\ RoleOf(G, G.nodes[1]) # ClassifyRole(df[1].BUILDING_A)
    /\ RoleOf(G, G.nodes[1]) = "datacenter"
    /\ Cardinality(GroupOf(1)) = 2
    /\ layout_pos[G.nodes[1]] = <<X_RIGHT, 300>>

-----------------------------------------------------------------------------
\* C9: Cloud role exclusivity.  The cloud role is held only by the synthetic
\* Cloud_Network node, never by a node that a record named as a site, and the
\* synthetic node, once created by a shared-network record, keeps the cloud
\* role for the rest of the build, also when a record uses the string
\* "Cloud_Network" as a site identifier.  Stated for batches in which no
\* required field is empty.
CloudCreated == \E r \in 1..i : SharedRow(df[r])
NamedAsSite(n) == \E r \in 1..i : n \in {df[r].SITE_ID_A, df[r].SITE_ID_B}

C9_CloudRoleExclusive ==
    (Built /\ NoEmptyRequired) =>
      /\ Len(G.nodes) = Cardinality(Nodes)
      /\ \A n \in CloudRoleNodes : n = cloud_id /\ ~NamedAsSite(n)
      /\ CloudCreated => (cloud_id \in Nodes /\ RoleOf(G, cloud_id) = "cloud")

-----------------------------------------------------------------------------
\* C10: Edge endpoints are positioned nodes.  After every prefix of the
\* batch both identities of every edge key are nodes of the graph; after
\* layout both have a position, and the drawing loop skips no edge key.  A
\* record with no endpoint B and no shared-network marker registers node A
\* and adds no edge key.
LoneRow(row) == ~SharedRow(row) /\ ~Truthy(row.SITE_ID_B)

C10_EdgeEndpointsPositioned ==
    /\ []( /\ \A k \in DOMAIN edges_info : k[1] \in Nodes /\ k[2] \in Nodes
           /\ LaidOut => \A k \in DOMAIN edges_info :
                k[1] \in DOMAIN layout_pos /\ k[2] \in DOMAIN layout_pos
           /\ (pc = "done") => (DOMAIN connectors = DOMAIN edges_info) )
    /\ [][ (RowStep /\ LoneRow(df[i + 1]))
           => /\ edges_info' = edges_info
              /\ df[i + 1].SITE_ID_A \in DOMAIN G'.attr
              /\ DOMAIN G'.attr = Nodes \cup {df[i + 1].SITE_ID_A} ]_vars

\* a drawn batch of one record with an edge and one record with no endpoint B
C10_Witness ==
    /\ pc = "done" /\ Len(df) = 2
    /\ LoneRow(df[2])
    /\ DOMAIN edges_info # {}
    /\ DOMAIN connectors = DOMAIN edges_info
    /\ df[2].SITE_ID_A \in Nodes
    /\ \A k \in DOMAIN edges_info : df[2].SITE_ID_A \notin {k[1], k[2]}

====
